---- MODULE Spec2Model ----
(***************************************************************************)
(* Model of outliers_lib/find_outliers.py: find_outliers_iqr,              *)
(* find_outliers_z_score and find_outliers_quantile over one feature       *)
(* column of a DataFrame.                                                  *)
(*                                                                         *)
(* Floating point numbers are modelled as extended reals with exact        *)
(* arithmetic: a number is NaN, -inf, +inf or the finite value             *)
(* (p + ssqrt(s)) / d, where ssqrt(s) = sign(s) * sqrt(|s|).  The surd     *)
(* part s is non-zero only for the standard deviation and the bounds built *)
(* from it.  np.log is tabulated to one decimal (strictly increasing).     *)
(***************************************************************************)
EXTENDS Integers, Sequences, FiniteSets, TLC

VARIABLES data, pc, fn, feature, left, right, log_scale, x,
          quartile_1, quartile_3, iqr, mu, sigma,
          lower_bound, upper_bound, outliers, cleaned, err

vars == <<data, pc, fn, feature, left, right, log_scale, x,
          quartile_1, quartile_3, iqr, mu, sigma,
          lower_bound, upper_bound, outliers, cleaned, err>>

----------------------------------------------------------------------------
(* Bounds of the model *)

MaxRows == 3

MaxLongRows == 5

----------------------------------------------------------------------------
(* Integer helpers *)

Abs(a) == IF a < 0 THEN -a ELSE a

RECURSIVE GCD(_, _)
GCD(a, b) == IF b = 0 THEN a ELSE GCD(b, a % b)

LCM(a, b) == (a \div GCD(a, b)) * b

SignedSq(a) == a * Abs(a)

----------------------------------------------------------------------------
(* float64 as extended reals *)

NaN == [k |-> "nan", p |-> 0, s |-> 0, d |-> 1]

PInf == [k |-> "pinf", p |-> 0, s |-> 0, d |-> 1]

NInf == [k |-> "ninf", p |-> 0, s |-> 0, d |-> 1]

NoNum == [k |-> "none", p |-> 0, s |-> 0, d |-> 1]

\* the finite number (p + ssqrt(s)) / d, d > 0; rationals are kept in lowest terms
Mk(p, s, d) ==
    IF s = 0
    THEN LET g == GCD(Abs(p), d) IN [k |-> "fin", p |-> p \div g, s |-> 0, d |-> d \div g]
    ELSE [k |-> "fin", p |-> p, s |-> s, d |-> d]

Rat(n, d) == Mk(n, 0, d)

Int2Num(n) == Mk(n, 0, 1)

IsFin(A) == A.k = "fin"

IsNaN(A) == A.k = "nan"

\* -1, 0 or 1 for a finite number
Sign(A) ==
    LET t == A.s + SignedSq(A.p)
    IN IF t > 0 THEN 1 ELSE IF t < 0 THEN -1 ELSE 0

Neg(A) ==
    CASE A.k = "fin" -> Mk(-A.p, -A.s, A.d)
      [] A.k = "pinf" -> NInf
      [] A.k = "ninf" -> PInf
      [] OTHER -> NaN

\* a + b; of two finite operands at most one has a surd part
Add(A, B) ==
    CASE A.k = "nan" \/ B.k = "nan" -> NaN
      [] A.k = "fin" /\ B.k = "fin" ->
            LET L == LCM(A.d, B.d)
                fa == L \div A.d
                fb == L \div B.d
            IN Mk(A.p * fa + B.p * fb, A.s * fa * fa + B.s * fb * fb, L)
      [] A.k = "fin" -> B
      [] B.k = "fin" -> A
      [] A.k = B.k -> A
      [] OTHER -> NaN

Sub(A, B) == Add(A, Neg(B))

\* a * b; of two finite operands at most one has a surd part
Mul(A, B) ==
    CASE A.k = "nan" \/ B.k = "nan" -> NaN
      [] A.k = "fin" /\ B.k = "fin" ->
            Mk(A.p * B.p, A.s * SignedSq(B.p) + B.s * SignedSq(A.p), A.d * B.d)
      [] OTHER ->
            LET sa == IF A.k = "fin" THEN Sign(A) ELSE IF A.k = "pinf" THEN 1 ELSE -1
                sb == IF B.k = "fin" THEN Sign(B) ELSE IF B.k = "pinf" THEN 1 ELSE -1
            IN IF sa * sb = 0 THEN NaN ELSE IF sa * sb > 0 THEN PInf ELSE NInf

\* a < b, false when either is NaN
Lt(A, B) ==
    CASE A.k = "nan" \/ B.k = "nan" -> FALSE
      [] A.k = "fin" /\ B.k = "fin" -> Sign(Sub(B, A)) > 0
      [] A.k = "ninf" -> B.k # "ninf"
      [] A.k = "pinf" -> FALSE
      [] OTHER -> B.k = "pinf"

Gt(A, B) == Lt(B, A)

\* a == b, false when either is NaN
Eq(A, B) ==
    CASE A.k = "nan" \/ B.k = "nan" -> FALSE
      [] A.k = "fin" /\ B.k = "fin" -> Sign(Sub(B, A)) = 0
      [] OTHER -> A.k = B.k

Le(A, B) == Lt(A, B) \/ Eq(A, B)

\* sqrt of a rational
Sqrt(A) ==
    CASE A.k = "nan" \/ A.k = "ninf" -> NaN
      [] A.k = "pinf" -> PInf
      [] A.p < 0 -> NaN
      [] A.p = 0 -> Int2Num(0)
      [] OTHER -> Mk(0, A.p * A.d, A.d)

\* 10 * ln(n) to the nearest integer
LnTenths(n) ==
    CASE n = 1 -> 0
      [] n = 2 -> 7
      [] n = 3 -> 11
      [] n = 4 -> 14
      [] n = 5 -> 16
      [] n = 6 -> 18
      [] n = 7 -> 19
      [] n = 101 -> 46

\* np.log of an integer-valued float: nan below 0, -inf at 0 (a warning, no exception)
Log(A) ==
    CASE A.k = "nan" \/ A.k = "ninf" -> NaN
      [] A.k = "pinf" -> PInf
      [] A.p < 0 -> NaN
      [] A.p = 0 -> NInf
      [] OTHER -> Rat(LnTenths(A.p), 10)

----------------------------------------------------------------------------
(* The DataFrame: a sequence of rows; row i carries its index label and the
   feature cell.  A missing cell is NaN. *)

Columns == {"id", "f"}

Features == {"f", "g"}

Vals == {-2, -1, 0, 1, 3}

Cells == {Int2Num(v) : v \in Vals} \cup {NaN}

MkData(cells) == [i \in 1..Len(cells) |-> [id |-> i, f |-> cells[i]]]

Datasets == UNION {{MkData(c) : c \in [1..n -> Cells]} : n \in 0..MaxRows}

\* multipliers of find_outliers_iqr / find_outliers_z_score (1.5 and 3 are the defaults)
Mults == {Int2Num(-1), Int2Num(0), Rat(3, 2), Int2Num(3)}

\* quantile probabilities of find_outliers_quantile
Probs == {Int2Num(0), Rat(1, 4), Rat(3, 4), Int2Num(1)}

----------------------------------------------------------------------------
(* pandas / numpy operations used by the three functions *)

\* mutant: a lookup that never raises (a missing column reads as all-NaN)
HasColumnAny(d, feat) == TRUE

\* data[feature] raises KeyError unless the column exists
HasColumn(d, feat) == feat \in Columns

\* data[feature]
Column(d, feat) == [i \in 1..Len(d) |-> IF feat \in DOMAIN d[i] THEN d[i][feat] ELSE NaN]

\* np.log(data[feature] + 1)
LogTransform(col) == [i \in 1..Len(col) |-> Log(Add(col[i], Int2Num(1)))]

\* the non-NaN values of a series, in order (skipna)
RECURSIVE DropNa(_)
DropNa(xs) ==
    IF xs = <<>> THEN <<>>
    ELSE IF IsNaN(Head(xs)) THEN DropNa(Tail(xs))
    ELSE <<Head(xs)>> \o DropNa(Tail(xs))

RECURSIVE Insert(_, _)
Insert(v, sorted) ==
    IF sorted = <<>> THEN <<v>>
    ELSE IF Lt(Head(sorted), v) THEN <<Head(sorted)>> \o Insert(v, Tail(sorted))
    ELSE <<v>> \o sorted

RECURSIVE Sort(_)
Sort(xs) == IF xs = <<>> THEN <<>> ELSE Insert(Head(xs), Sort(Tail(xs)))

\* mutant: interpolation='lower' instead of 'linear'
LerpLower(a, b, t) == a

\* numpy's linear interpolation between two neighbours, a <= b, 0 <= t < 1
Lerp(a, b, t) ==
    LET diff == Sub(b, a)
    IN IF Le(Rat(1, 2), t)
       THEN Sub(b, Mul(diff, Sub(Int2Num(1), t)))
       ELSE Add(a, Mul(diff, t))

\* Series.quantile(q), interpolation='linear', q = q.p / q.d in [0, 1]
Quantile(xs, q) ==
    LET v == Sort(DropNa(xs))
        n == Len(v)
        num == (n - 1) * q.p
        prev == num \div q.d
        nxt == IF prev + 1 < n - 1 THEN prev + 1 ELSE n - 1
        gamma == Rat(num % q.d, q.d)
    IN IF n = 0 THEN NaN ELSE Lerp(v[prev + 1], v[nxt + 1], gamma)

RECURSIVE Sum(_)
Sum(xs) == IF xs = <<>> THEN Int2Num(0) ELSE Add(Head(xs), Sum(Tail(xs)))

\* Series.mean(), skipna
Mean(xs) ==
    LET v == DropNa(xs)
    IN IF v = <<>> THEN NaN ELSE Mul(Sum(v), Rat(1, Len(v)))

\* Series.std(), skipna, ddof = 1
Std(xs) ==
    LET v == DropNa(xs)
        n == Len(v)
        m == Mul(Sum(v), Rat(1, n))
        sq == [i \in 1..n |-> Mul(Sub(v[i], m), Sub(v[i], m))]
    IN IF n < 2 THEN NaN ELSE Sqrt(Mul(Sum(sq), Rat(1, n - 1)))

\* mutant: non-strict comparisons in the outlier mask
OutlierMaskNonStrict(xs, lb, ub) == [i \in 1..Len(xs) |-> Le(xs[i], lb) \/ Le(ub, xs[i])]

\* mutant: only the upper fence is tested
OutlierMaskUpperOnly(xs, lb, ub) == [i \in 1..Len(xs) |-> Gt(xs[i], ub)]

\* (x < lower_bound) | (x > upper_bound)
OutlierMask(xs, lb, ub) == [i \in 1..Len(xs) |-> Lt(xs[i], lb) \/ Gt(xs[i], ub)]

\* mutant: | instead of & in the cleaned mask
CleanedMaskOr(xs, lb, ub) == [i \in 1..Len(xs) |-> Gt(xs[i], lb) \/ Lt(xs[i], ub)]

\* mutant: non-strict comparisons in the cleaned mask
CleanedMaskNonStrict(xs, lb, ub) == [i \in 1..Len(xs) |-> Le(lb, xs[i]) /\ Le(xs[i], ub)]

\* (x > lower_bound) & (x < upper_bound)
CleanedMask(xs, lb, ub) == [i \in 1..Len(xs) |-> Gt(xs[i], lb) /\ Lt(xs[i], ub)]

\* data[mask]: the rows of data where mask holds, in data's order
RECURSIVE SelectFrom(_, _, _)
SelectFrom(d, mask, i) ==
    IF i > Len(d) THEN <<>>
    ELSE IF mask[i] THEN <<d[i]>> \o SelectFrom(d, mask, i + 1)
    ELSE SelectFrom(d, mask, i + 1)

\* mutant: the transformed column is written into the selected rows
SelectRowsTransformed(d, xs, mask) ==
    SelectFrom([i \in 1..Len(d) |-> [d[i] EXCEPT !.f = xs[i]]], mask, 1)

SelectRows(d, xs, mask) == SelectFrom(d, mask, 1)

----------------------------------------------------------------------------
(* The three functions.  Each returns the record of its locals and of the
   returned pair; raised = TRUE when data[feature] raised KeyError. *)

NoCall ==
    [raised |-> FALSE, x |-> <<>>,
     quartile_1 |-> NoNum, quartile_3 |-> NoNum, iqr |-> NoNum,
     mu |-> NoNum, sigma |-> NoNum,
     lower_bound |-> NoNum, upper_bound |-> NoNum,
     outliers |-> <<>>, cleaned |-> <<>>]

KeyError == [NoCall EXCEPT !.raised = TRUE]

\* x = np.log(data[feature]+1) if log_scale else data[feature]
Transformed(d, feat, ls) == IF ls THEN LogTransform(Column(d, feat)) ELSE Column(d, feat)

\* mutant: + instead of - in the lower fence
IqrLowerPlus(q1, w, l) == Add(q1, Mul(w, l))

\* lower_bound = quartile_1 - (iqr * left)
IqrLower(q1, w, l) == Sub(q1, Mul(w, l))

\* upper_bound = quartile_3 + (iqr * right)
IqrUpper(q3, w, r) == Add(q3, Mul(w, r))

\* lower_bound = mu - left * sigma
ZLower(m, sd, l) == Sub(m, Mul(l, sd))

\* upper_bound = mu + right * sigma
ZUpper(m, sd, r) == Add(m, Mul(r, sd))

\* mutant: the probabilities are put in order before use
QuantileBoundsSorted(xs, l, r) ==
    IF Lt(r, l) THEN <<Quantile(xs, r), Quantile(xs, l)>> ELSE <<Quantile(xs, l), Quantile(xs, r)>>

\* lower_bound = x.quantile(left); upper_bound = x.quantile(right)
QuantileBounds(xs, l, r) == <<Quantile(xs, l), Quantile(xs, r)>>

Partition(d, xs, lb, ub, base) ==
    [base EXCEPT !.x = xs, !.lower_bound = lb, !.upper_bound = ub,
                 !.outliers = SelectRows(d, xs, OutlierMask(xs, lb, ub)),
                 !.cleaned = SelectRows(d, xs, CleanedMask(xs, lb, ub))]

IqrCall(d, feat, l, r, ls) ==
    IF ~HasColumn(d, feat) THEN KeyError
    ELSE LET xs == Transformed(d, feat, ls)
             q1 == Quantile(xs, Rat(1, 4))
             q3 == Quantile(xs, Rat(3, 4))
             w == Sub(q3, q1)
         IN Partition(d, xs, IqrLower(q1, w, l), IqrUpper(q3, w, r),
                      [NoCall EXCEPT !.quartile_1 = q1, !.quartile_3 = q3, !.iqr = w])

ZScoreCall(d, feat, l, r, ls) ==
    IF ~HasColumn(d, feat) THEN KeyError
    ELSE LET xs == Transformed(d, feat, ls)
             m == Mean(xs)
             sd == Std(xs)
         IN Partition(d, xs, ZLower(m, sd, l), ZUpper(m, sd, r),
                      [NoCall EXCEPT !.mu = m, !.sigma = sd])

QuantileCall(d, feat, l, r) ==
    IF ~HasColumn(d, feat) THEN KeyError
    ELSE LET xs == Column(d, feat)
             b == QuantileBounds(xs, l, r)
         IN Partition(d, xs, b[1], b[2], NoCall)

----------------------------------------------------------------------------
(* State machine: a caller holds a DataFrame and makes one call. *)

\* the caller holds a DataFrame of the set D and has not called yet
NotCalled(D) ==
    /\ data \in D
    /\ pc = "ready"
    /\ fn = "none"
    /\ feature = "none"
    /\ left = NoNum
    /\ right = NoNum
    /\ log_scale = FALSE
    /\ x = <<>>
    /\ quartile_1 = NoNum
    /\ quartile_3 = NoNum
    /\ iqr = NoNum
    /\ mu = NoNum
    /\ sigma = NoNum
    /\ lower_bound = NoNum
    /\ upper_bound = NoNum
    /\ outliers = <<>>
    /\ cleaned = <<>>
    /\ err = "none"

Init == NotCalled(Datasets)

\* the caller's state after a call with result record c
Return(name, feat, l, r, ls, c) ==
    /\ pc' = IF c.raised THEN "raised" ELSE "done"
    /\ err' = IF c.raised THEN "KeyError" ELSE "none"
    /\ fn' = name
    /\ feature' = feat
    /\ left' = l
    /\ right' = r
    /\ log_scale' = ls
    /\ x' = c.x
    /\ quartile_1' = c.quartile_1
    /\ quartile_3' = c.quartile_3
    /\ iqr' = c.iqr
    /\ mu' = c.mu
    /\ sigma' = c.sigma
    /\ lower_bound' = c.lower_bound
    /\ upper_bound' = c.upper_bound
    /\ outliers' = c.outliers
    /\ cleaned' = c.cleaned
    /\ UNCHANGED data

find_outliers_iqr ==
    /\ pc = "ready"
    /\ \E feat \in Features, l \in Mults, r \in Mults, ls \in BOOLEAN :
          Return("iqr", feat, l, r, ls, IqrCall(data, feat, l, r, ls))

find_outliers_z_score ==
    /\ pc = "ready"
    /\ \E feat \in Features, l \in Mults, r \in Mults, ls \in BOOLEAN :
          Return("z_score", feat, l, r, ls, ZScoreCall(data, feat, l, r, ls))

find_outliers_quantile ==
    /\ pc = "ready"
    /\ \E feat \in Features, l \in Probs, r \in Probs :
          Return("quantile", feat, l, r, FALSE, QuantileCall(data, feat, l, r))

Next == find_outliers_iqr \/ find_outliers_z_score \/ find_outliers_quantile

Spec == Init /\ [][Next]_vars

----------------------------------------------------------------------------
(* A second caller: longer columns over fewer values, and the prefixes of the
   column 1, 2, 3, 4, 5, 6, 100; it calls find_outliers_iqr. *)

LongVals == {-1, 0, 1}

LongCells == {Int2Num(v) : v \in LongVals} \cup {NaN}

LongDatasets == UNION {{MkData(c) : c \in [1..n -> LongCells]} : n \in 0..MaxLongRows}

ScenarioA == <<1, 2, 3, 4, 5, 6, 100>>

ScenarioData(n) == MkData([i \in 1..n |-> Int2Num(ScenarioA[i])])

ScenarioDatasets == {ScenarioData(n) : n \in 1..Len(ScenarioA)}

InitIqr == NotCalled(LongDatasets \cup ScenarioDatasets)

NextIqr == find_outliers_iqr

SpecIqr == InitIqr /\ [][NextIqr]_vars

----------------------------------------------------------------------------
(* A third caller, for comparing calls with different bounds: columns of
   MaxRows rows over fewer values. *)

MonoVals == {-1, 0, 3}

MonoCells == {Int2Num(v) : v \in MonoVals} \cup {NaN}

MonoDatasets == UNION {{MkData(c) : c \in [1..n -> MonoCells]} : n \in 0..MaxRows}

InitMono == NotCalled(MonoDatasets)

SpecMono == InitMono /\ [][Next]_vars

----------------------------------------------------------------------------
(* Vocabulary of the properties *)

Ids(rows) == {rows[i].id : i \in 1..Len(rows)}

Returned == pc = "done"

Rows == 1..Len(data)

InOutliers(i) == i \in Ids(outliers)

InCleaned(i) == i \in Ids(cleaned)

InNeither(i) == ~InOutliers(i) /\ ~InCleaned(i)

InExactlyOne(i) == InOutliers(i) # InCleaned(i)

Zero == Int2Num(0)

\* the rows of res are rows of d, unaltered and in d's order
IsSelectionOf(res, d) ==
    /\ \A k \in 1..Len(res) : res[k].id \in 1..Len(d) /\ res[k] = d[res[k].id]
    /\ \A k \in 1..(Len(res) - 1) : res[k].id < res[k + 1].id

\* the feature values (integers) of a returned frame
ValuesOf(rows) == {rows[i].f.p : i \in 1..Len(rows)}

----------------------------------------------------------------------------
(* C1: for each of the three functions and every dataset, feature and
   parameter values, no row of the input is in both returned frames. *)
C1_Disjoint == Returned => Ids(outliers) \cap Ids(cleaned) = {}

\* a call with a negative multiplier on a column with a missing value that
\* returned two non-empty frames
C1_Witness ==
    /\ Returned /\ fn \in {"iqr", "z_score"} /\ Lt(left, Zero)
    /\ \E i \in Rows : IsNaN(data[i].f)
    /\ outliers # <<>> /\ cleaned # <<>>

----------------------------------------------------------------------------
\* the value of row i equals lower_bound or upper_bound
OnBound(i) == Eq(x[i], lower_bound) \/ Eq(x[i], upper_bound)

(* C2 as stated: every row is in exactly one of the two frames, except the
   rows whose transformed value equals a bound, which are in neither. *)
C2_AsStated ==
    Returned => \A i \in Rows : IF OnBound(i) THEN InNeither(i) ELSE InExactlyOne(i)

\* row i is left out of both frames by the exact-boundary rule or by a NaN bound
LeftOut(i) ==
    \/ Eq(x[i], lower_bound) /\ Le(x[i], upper_bound)
    \/ Eq(x[i], upper_bound) /\ Le(lower_bound, x[i])
    \/ IsNaN(lower_bound) /\ IsNaN(upper_bound)
    \/ IsNaN(lower_bound) /\ Le(x[i], upper_bound)
    \/ IsNaN(upper_bound) /\ Le(lower_bound, x[i])

(* C2 amended: a row with a missing (NaN) transformed value is in neither
   frame; any other row is in exactly one frame, unless its value equals
   lower_bound without exceeding upper_bound, or equals upper_bound without
   being below lower_bound, or a bound is NaN and the value is not beyond the
   other bound: then it is in neither. *)
C2_Completeness ==
    Returned =>
        \A i \in Rows :
            IF IsNaN(x[i]) \/ LeftOut(i) THEN InNeither(i) ELSE InExactlyOne(i)

\* inverted bounds with a row on the lower bound that is an outlier, and a
\* row with a missing value
C2_Witness ==
    /\ Returned
    /\ Lt(upper_bound, lower_bound)
    /\ \E i \in Rows : Eq(x[i], lower_bound) /\ InOutliers(i)
    /\ \E i \in Rows : IsNaN(x[i])

----------------------------------------------------------------------------
\* the index labels of the outliers each function returns for other bounds
OutliersWith(l, r) ==
    CASE fn = "iqr" -> Ids(IqrCall(data, feature, l, r, log_scale).outliers)
      [] fn = "z_score" -> Ids(ZScoreCall(data, feature, l, r, log_scale).outliers)
      [] fn = "quantile" -> Ids(QuantileCall(data, feature, l, r).outliers)

\* (l, r) is at least as wide as the (left, right) of the call
Wider(l, r) ==
    IF fn = "quantile"
    THEN l \in Probs /\ r \in Probs /\ Le(l, left) /\ Le(right, r)
    ELSE l \in Mults /\ r \in Mults /\ Le(left, l) /\ Le(right, r)

(* C3: on the same dataset and feature, the outliers returned with wider
   bounds (larger left and right multipliers for iqr and z_score; smaller
   left and larger right probability for quantile) are a subset of the
   outliers returned with the narrower ones. *)
C3_Monotone ==
    Returned =>
        \A l \in Mults \cup Probs, r \in Mults \cup Probs :
            Wider(l, r) => OutliersWith(l, r) \subseteq Ids(outliers)

\* a call that returned outliers, of which strictly wider bounds lose some
C3_Witness ==
    /\ Returned /\ outliers # <<>>
    /\ \E l \in Mults \cup Probs, r \in Mults \cup Probs :
          Wider(l, r) /\ OutliersWith(l, r) # Ids(outliers)

----------------------------------------------------------------------------
(* C4: a call leaves the input dataset unchanged, and each returned frame
   consists of original rows (untransformed feature values) in the input's
   row order, also with log_scale = True. *)
C4_Frame ==
    [][/\ data' = data
       /\ pc' = "done" => IsSelectionOf(outliers', data) /\ IsSelectionOf(cleaned', data)]_vars

\* a log_scale call that returned two non-empty frames
C4_Witness ==
    /\ Returned /\ log_scale
    /\ outliers # <<>> /\ cleaned # <<>>
    /\ \E i \in Rows : x[i] # data[i].f

----------------------------------------------------------------------------
\* the feature column holds a value <= -1
HasLogDomainError == \E i \in Rows : IsFin(data[i].f) /\ Le(data[i].f, Int2Num(-1))

(* C5: with log_scale = True and a feature value <= -1, find_outliers_iqr
   and find_outliers_z_score fail with InvalidLogDomain and return no pair. *)
C5_LogDomainRejected ==
    (/\ pc # "ready" /\ fn \in {"iqr", "z_score"} /\ log_scale
     /\ feature \in Columns /\ HasLogDomainError)
        => pc = "raised" /\ err = "InvalidLogDomain"

----------------------------------------------------------------------------
(* C6: if the feature is not a column of the dataset, each function raises
   before any bound is computed and returns nothing. *)
C6_MissingColumn ==
    (pc # "ready" /\ feature \notin Columns) =>
        /\ pc = "raised" /\ err = "KeyError"
        /\ lower_bound = NoNum /\ upper_bound = NoNum
        /\ quartile_1 = NoNum /\ quartile_3 = NoNum /\ mu = NoNum /\ sigma = NoNum
        /\ outliers = <<>> /\ cleaned = <<>>

\* find_outliers_quantile was called on a non-empty frame with a feature that is no column
C6_Witness == pc = "raised" /\ feature \notin Columns /\ fn = "quantile" /\ data # <<>>

----------------------------------------------------------------------------
\* find_outliers_iqr(data, "f", 1.5, 1.5, False) returned on 1, 2, 3, 4, 5, 6, 100
ScenarioAReturned ==
    /\ Returned /\ fn = "iqr" /\ feature = "f" /\ ~log_scale
    /\ data = ScenarioData(Len(ScenarioA))
    /\ left = Rat(3, 2) /\ right = Rat(3, 2)

(* C7 as stated: scenario A computes Q1 = 2, Q3 = 5, IQR = 3, bounds
   (-2.5, 9.5), outliers {100} and cleaned {1..6}. *)
C7_AsStated ==
    ScenarioAReturned =>
        /\ Eq(quartile_1, Int2Num(2)) /\ Eq(quartile_3, Int2Num(5)) /\ Eq(iqr, Int2Num(3))
        /\ Eq(lower_bound, Rat(-5, 2)) /\ Eq(upper_bound, Rat(19, 2))
        /\ ValuesOf(outliers) = {100} /\ ValuesOf(cleaned) = 1..6

(* C7 amended: scenario A computes Q1 = 2.5, Q3 = 5.5, IQR = 3, bounds
   (-2, 10), outliers {100} and cleaned {1..6}. *)
C7_ScenarioA ==
    ScenarioAReturned =>
        /\ Eq(quartile_1, Rat(5, 2)) /\ Eq(quartile_3, Rat(11, 2)) /\ Eq(iqr, Int2Num(3))
        /\ Eq(lower_bound, Int2Num(-2)) /\ Eq(upper_bound, Int2Num(10))
        /\ ValuesOf(outliers) = {100} /\ ValuesOf(cleaned) = 1..6
        /\ Len(outliers) = 1 /\ Len(cleaned) = 6

C7_Witness == ScenarioAReturned

----------------------------------------------------------------------------
\* find_outliers_z_score returned on a column of zero variance, left, right > 0
ZeroVariance ==
    /\ Returned /\ fn = "z_score"
    /\ Eq(sigma, Zero) /\ Lt(Zero, left) /\ Lt(Zero, right)

(* C8 as stated: with sigma = 0 and left, right > 0 both bounds equal mu,
   every row with x != mu is an outlier and every row with x = mu is in
   neither frame. *)
C8_AsStated ==
    ZeroVariance =>
        /\ Eq(lower_bound, mu) /\ Eq(upper_bound, mu)
        /\ \A i \in Rows : IF Eq(x[i], mu) THEN InNeither(i) ELSE InOutliers(i)
        /\ cleaned = <<>>

(* C8 amended: with sigma = 0 and left, right > 0 both bounds equal mu,
   every row with a non-missing x != mu is an outlier, every row with x = mu
   or a missing x is in neither frame, and cleaned is empty. *)
C8_ZeroVariance ==
    ZeroVariance =>
        /\ Eq(lower_bound, mu) /\ Eq(upper_bound, mu)
        /\ \A i \in Rows :
              IF Eq(x[i], mu) \/ IsNaN(x[i]) THEN InNeither(i) ELSE InOutliers(i)
        /\ cleaned = <<>>

\* a zero-variance column of at least two values and a missing one
C8_Witness ==
    /\ ZeroVariance
    /\ Cardinality({i \in Rows : Eq(x[i], mu)}) >= 2
    /\ \E i \in Rows : IsNaN(x[i])

----------------------------------------------------------------------------
\* find_outliers_quantile was called with left > right on an existing column
InvertedCall ==
    pc # "ready" /\ fn = "quantile" /\ feature \in Columns /\ Lt(right, left)

\* the column has a non-missing value
HasValue == \E i \in Rows : ~IsNaN(data[i].f)

\* a and b are the same float (NaN matching NaN)
Same(a, b) == Eq(a, b) \/ (IsNaN(a) /\ IsNaN(b))

(* C9 as stated: with left > right the call does not fail, lower_bound is
   the left-quantile and upper_bound the right-quantile, lower_bound >=
   upper_bound, and whenever lower_bound > upper_bound cleaned is empty and
   every row with a non-missing value is an outlier. *)
C9_AsStated ==
    InvertedCall =>
        /\ Returned
        /\ Same(lower_bound, Quantile(Column(data, "f"), left))
        /\ Same(upper_bound, Quantile(Column(data, "f"), right))
        /\ Le(upper_bound, lower_bound)
        /\ Lt(upper_bound, lower_bound) =>
              /\ cleaned = <<>>
              /\ \A i \in Rows : ~IsNaN(data[i].f) => InOutliers(i)

(* C9 amended: as stated, but lower_bound >= upper_bound holds when the
   column has a non-missing value; otherwise both bounds are NaN. *)
C9_Inverted ==
    InvertedCall =>
        /\ Returned
        /\ Same(lower_bound, Quantile(Column(data, "f"), left))
        /\ Same(upper_bound, Quantile(Column(data, "f"), right))
        /\ IF HasValue THEN Le(upper_bound, lower_bound)
           ELSE IsNaN(lower_bound) /\ IsNaN(upper_bound)
        /\ Lt(upper_bound, lower_bound) =>
              /\ cleaned = <<>>
              /\ \A i \in Rows : ~IsNaN(data[i].f) => InOutliers(i)

\* strictly inverted bounds on a column with a missing value
C9_Witness ==
    /\ InvertedCall /\ Returned
    /\ Lt(upper_bound, lower_bound)
    /\ outliers # <<>>
    /\ \E i \in Rows : IsNaN(data[i].f)

----------------------------------------------------------------------------
\* find_outliers_iqr returned with coinciding quartiles
ZeroIqr == Returned /\ fn = "iqr" /\ Eq(quartile_1, quartile_3)

\* the rows whose value is the first quartile
AtQ1 == {i \in Rows : Eq(x[i], quartile_1)}

\* the rows with a non-missing transformed value
Present == {i \in Rows : ~IsNaN(x[i])}

(* C10 as stated: when the quartiles coincide, both bounds equal Q1 for all
   left and right, cleaned is empty, the rows with x = Q1 are at least half
   of the rows and are in neither frame, and the outliers are exactly the
   rows with x != Q1. *)
C10_AsStated ==
    ZeroIqr =>
        /\ Eq(lower_bound, quartile_1) /\ Eq(upper_bound, quartile_1)
        /\ cleaned = <<>>
        /\ 2 * Cardinality(AtQ1) >= Len(data)
        /\ \A i \in Rows : IF i \in AtQ1 THEN InNeither(i) ELSE InOutliers(i)

(* C10 amended: when the quartiles coincide, both bounds equal Q1 for all
   left and right, cleaned is empty, the rows with x = Q1 are at least half
   of the rows with a non-missing value and are in neither frame, and the
   outliers are exactly the rows with a non-missing x != Q1. *)
C10_ZeroIqr ==
    ZeroIqr =>
        /\ Eq(lower_bound, quartile_1) /\ Eq(upper_bound, quartile_1)
        /\ cleaned = <<>>
        /\ 2 * Cardinality(AtQ1) >= Cardinality(Present)
        /\ \A i \in Rows :
              IF i \in AtQ1 \/ i \notin Present THEN InNeither(i) ELSE InOutliers(i)

\* coinciding quartiles with outliers on both sides and a non-default multiplier
C10_Witness ==
    /\ ZeroIqr /\ Lt(left, Zero)
    /\ \E i \in Rows : Lt(x[i], quartile_1) /\ InOutliers(i)
    /\ \E i \in Rows : Gt(x[i], quartile_1) /\ InOutliers(i)

====
